---- MODULE Spec2Model ----
(***************************************************************************)
(* Version resolution of dsfinn/roboversion.                                *)
(*                                                                         *)
(* Reference.get_version (src/autoversion/git.py) is modelled as a         *)
(* sequential procedure whose position (pc) advances by one action per     *)
(* call to Git.  The Version, Release, Prerelease and LocalVersion classes *)
(* it builds its result with are those of src/autoversion/version.py, the  *)
(* module git.py imports; Version.from_datetime, which that module lacks,  *)
(* is the one of src/roboversion/version.py.                               *)
(*                                                                         *)
(* Python strings are sequences of one-character strings, an optional      *)
(* value (None or x) is the empty sequence or <<x>>.                       *)
(***************************************************************************)
EXTENDS Integers, Sequences, FiniteSets, TLC

\* ------------------------------------------------------------------ bounds
\* Largest post number a caller supplies (the smallest is -1).
MaxPost == 1
\* Largest number of commits a target is ahead of the open stream branch.
MaxSince == 1

\* ------------------------------------------------------- optional values
Null == <<>>
Some(x) == <<x>>
IsNull(o) == o = <<>>
Get(o) == o[1]

\* ----------------------------------------------------------- characters
Digits == {"0", "1", "2", "3", "4", "5", "6", "7", "8", "9"}
LowerLetters ==
    {"a", "b", "c", "d", "e", "f", "g", "h", "i", "j", "k", "l", "m",
     "n", "o", "p", "q", "r", "s", "t", "u", "v", "w", "x", "y", "z"}

DigitVal(c) ==
    CASE c = "0" -> 0 [] c = "1" -> 1 [] c = "2" -> 2 [] c = "3" -> 3
      [] c = "4" -> 4 [] c = "5" -> 5 [] c = "6" -> 6 [] c = "7" -> 7
      [] c = "8" -> 8 [] c = "9" -> 9

DigitChar(n) ==
    CASE n = 0 -> "0" [] n = 1 -> "1" [] n = 2 -> "2" [] n = 3 -> "3"
      [] n = 4 -> "4" [] n = 5 -> "5" [] n = 6 -> "6" [] n = 7 -> "7"
      [] n = 8 -> "8" [] n = 9 -> "9"

IsDigits(s) == Len(s) > 0 /\ \A i \in 1..Len(s) : s[i] \in Digits

\* str(n) of a non-negative int: its decimal digits, no leading zero.
RECURSIVE NatToStr(_)
NatToStr(n) ==
    IF n < 10 THEN <<DigitChar(n)>>
    ELSE Append(NatToStr(n \div 10), DigitChar(n % 10))

\* int(s) of a string of decimal digits.
RECURSIVE StrToNat(_)
StrToNat(s) ==
    IF Len(s) = 0 THEN 0
    ELSE 10 * StrToNat(SubSeq(s, 1, Len(s) - 1)) + DigitVal(s[Len(s)])

StartsWith(s, p) == Len(s) >= Len(p) /\ SubSeq(s, 1, Len(p)) = p
Drop(s, n) == SubSeq(s, n + 1, Len(s))

\* ------------------------------------------------------- raised errors
ValueError == [type |-> "ValueError", code |-> 0]
TypeError == [type |-> "TypeError", code |-> 0]
CalledProcessError(returncode) == [type |-> "CalledProcessError", code |-> returncode]
AttributeError == [type |-> "AttributeError", code |-> 0]
IndexError == [type |-> "IndexError", code |-> 0]
UnboundLocalError == [type |-> "UnboundLocalError", code |-> 0]

\* The outcome of a call: a returned value or a raised error.
Returned(v) == [value |-> Some(v), error |-> Null]
Raised(e) == [value |-> Null, error |-> Some(e)]
IsReturned(o) == ~IsNull(o.value)
IsRaised(o) == ~IsNull(o.error)

\* ================================================================ Release
\* Release.__init__: a component below zero is a ValueError.
Release_init(components) ==
    IF \E i \in 1..Len(components) : components[i] < 0
    THEN Raised(ValueError)
    ELSE Returned(components)

\* The components Release.get_bumped hands to Release(): index is the
\* 0-based Python index, or None for the last component.
BumpedComponents(components, index, increment) ==
    LET n == Len(components)
        i == IF IsNull(index) THEN n - 1 ELSE Get(index)
        at(j) == IF j <= n THEN components[j] ELSE 0
        length == IF n > i + 1 THEN n ELSE i + 1
    IN  [j \in 1..length |->
            IF j - 1 < i THEN at(j)
            ELSE IF j - 1 = i THEN at(j) + increment
            ELSE 0]

\* Release.get_bumped adding 1 whatever the increment.
Release_get_bumped_by_one(components, index, increment) ==
    IF IsNull(index) /\ Len(components) = 0 THEN Raised(IndexError)
    ELSE Release_init(BumpedComponents(components, index, 1))

\* Release.get_bumped leaving the components after index as they are.
Release_get_bumped_keeps_tail(components, index, increment) ==
    IF IsNull(index) /\ Len(components) = 0 THEN Raised(IndexError)
    ELSE LET n == Len(components)
             i == IF IsNull(index) THEN n - 1 ELSE Get(index)
             length == IF n > i + 1 THEN n ELSE i + 1
         IN  Release_init([j \in 1..length |->
                (IF j <= n THEN components[j] ELSE 0)
                    + (IF j - 1 = i THEN increment ELSE 0)])

\* Release.get_bumped: with no component and no index, index is -1 and
\* new_components[index] is out of range.
Release_get_bumped(components, index, increment) ==
    IF IsNull(index) /\ Len(components) = 0 THEN Raised(IndexError)
    ELSE Release_init(BumpedComponents(components, index, increment))

\* ============================================================= Prerelease
ALPHA == 1
BETA == 2
RELEASE_CANDIDATE == 3

\* The characters the class [.-_] of Prerelease.EXPRESSION matches: a range
\* from "." to "_", which holds the digits and the upper-case letters and,
\* the expression being compiled with IGNORECASE, the lower-case letters.
PrereleaseSeparatorClass ==
    {".", "/", ":", ";", "<", "=", ">", "?", "@", "[", "]", "^", "_"}
        \cup Digits \cup LowerLetters

\* The keywords of Prerelease.EXPRESSION in the order the regular
\* expression tries them.
PrereleaseKeywords ==
    << [word |-> <<"a", "l", "p", "h", "a">>, category |-> ALPHA],
       [word |-> <<"a">>, category |-> ALPHA],
       [word |-> <<"b", "e", "t", "a">>, category |-> BETA],
       [word |-> <<"b">>, category |-> BETA],
       [word |-> <<"r", "c">>, category |-> RELEASE_CANDIDATE],
       [word |-> <<"c">>, category |-> RELEASE_CANDIDATE],
       [word |-> <<"p", "r", "e", "v", "i", "e", "w">>, category |-> RELEASE_CANDIDATE],
       [word |-> <<"p", "r", "e">>, category |-> RELEASE_CANDIDATE] >>

\* The group ([.-_]?(?P<value>\d+))? matched against the whole rest of
\* the string: the optional separator is greedy, so it is tried first.
\* Null when the rest does not match, else <<value>> (value 0 when the
\* group is absent, the default of Prerelease.__init__).
PrereleaseValue(rest) ==
    IF Len(rest) >= 2 /\ rest[1] \in PrereleaseSeparatorClass /\ IsDigits(Tail(rest))
    THEN Some(StrToNat(Tail(rest)))
    ELSE IF IsDigits(rest) THEN Some(StrToNat(rest))
    ELSE IF rest = <<>> THEN Some(0)
    ELSE Null

\* Prerelease.from_str: the first keyword, in order, after which the rest
\* of the string matches; no match at all is a TypeError (match is None).
Prerelease_from_str(string) ==
    LET hits == {k \in 1..Len(PrereleaseKeywords) :
                    /\ StartsWith(string, PrereleaseKeywords[k].word)
                    /\ ~IsNull(PrereleaseValue(
                            Drop(string, Len(PrereleaseKeywords[k].word))))}
    IN  IF hits = {} THEN Raised(TypeError)
        ELSE LET k == CHOOSE h \in hits : \A g \in hits : h <= g
                 kw == PrereleaseKeywords[k]
             IN  Returned([category |-> kw.category,
                           value |-> Get(PrereleaseValue(Drop(string, Len(kw.word))))])

\* =========================================================== LocalVersion
LocalSeparators == {".", "-", "_"}
LocalAlphanumerics == Digits \cup LowerLetters

\* _SEPARATOR_EXPRESSION.split: the pieces between separators.
RECURSIVE SplitOnSeparators(_)
SplitOnSeparators(s) ==
    LET seps == {i \in 1..Len(s) : s[i] \in LocalSeparators}
    IN  IF seps = {} THEN <<s>>
        ELSE LET i == CHOOSE x \in seps : \A y \in seps : x <= y
             IN  <<SubSeq(s, 1, i - 1)>> \o SplitOnSeparators(Drop(s, i))

\* LocalVersion.EXPRESSION.fullmatch: non-empty alphanumeric segments with
\* one separator between them.
LocalVersionMatches(s) ==
    /\ \A i \in 1..Len(s) : s[i] \in LocalAlphanumerics \cup LocalSeparators
    /\ LET parts == SplitOnSeparators(s)
       IN  \A i \in 1..Len(parts) : Len(parts[i]) > 0

\* One segment: int(segment) when that succeeds, else the string.
LocalSegment(segment) ==
    IF IsDigits(segment) THEN [int |-> StrToNat(segment)] ELSE [str |-> segment]

\* LocalVersion.from_str
LocalVersion_from_str(string) ==
    IF ~LocalVersionMatches(string) THEN Raised(ValueError)
    ELSE LET parts == SplitOnSeparators(string)
         IN  Returned([i \in 1..Len(parts) |-> LocalSegment(parts[i])])

\* str(x) of one segment.
LocalSegmentStr(x) == IF "int" \in DOMAIN x THEN NatToStr(x.int) ELSE x.str

\* LocalVersion.__str__: '.'.join(str(x) for x in self.segments)
RECURSIVE LocalVersion_str(_)
LocalVersion_str(segments) ==
    IF Len(segments) = 0 THEN <<>>
    ELSE IF Len(segments) = 1 THEN LocalSegmentStr(segments[1])
    ELSE LocalSegmentStr(segments[1]) \o <<".">> \o LocalVersion_str(Tail(segments))


\* ================================================================ Version
\* A Version as Version.__init__ leaves it: release is the Release's
\* components, prerelease None or a Prerelease, post and dev None or an
\* int, local None or a LocalVersion's segments.
VersionOf(release, prerelease, post, dev, local) ==
    [release |-> release, prerelease |-> prerelease, post |-> post,
     dev |-> dev, local |-> local]

\* Version.__init__ called with a Release, a prerelease string or None, and
\* a local string or None; the checks in the order the code makes them.
Version_init(release, prerelease, post, dev, local) ==
    LET pre == IF IsNull(prerelease) THEN Returned(Null)
               ELSE LET p == Prerelease_from_str(Get(prerelease))
                    IN  IF IsRaised(p) THEN p ELSE Returned(Some(Get(p.value)))
        loc == IF IsNull(local) THEN Returned(Null)
               ELSE LET l == LocalVersion_from_str(Get(local))
                    IN  IF IsRaised(l) THEN l ELSE Returned(Some(Get(l.value)))
    IN  IF IsRaised(pre) THEN pre
        ELSE IF ~IsNull(post) /\ Get(post) < 0 THEN Raised(ValueError)
        ELSE IF ~IsNull(dev) /\ Get(dev) < 0 THEN Raised(ValueError)
        ELSE IF IsRaised(loc) THEN loc
        ELSE Returned(VersionOf(release, Get(pre.value), post, dev, Get(loc.value)))

\* Version.__init__ called with a Release, a Prerelease or None, and a
\* LocalVersion or None: nothing is parsed, post and dev are checked.
Version_init_objects(release, prerelease, post, dev, local) ==
    IF ~IsNull(post) /\ Get(post) < 0 THEN Raised(ValueError)
    ELSE IF ~IsNull(dev) /\ Get(dev) < 0 THEN Raised(ValueError)
    ELSE Returned(VersionOf(release, prerelease, post, dev, local))

\* Prerelease.get_bumped
Prerelease_get_bumped(self, increment) ==
    [category |-> self.category, value |-> self.value + increment]

\* The fields Version.get_bumped knows by name.
BumpableFields == {"release", "prerelease", "post", "dev"}

\* Version.get_bumped without the check of release_index.
Version_get_bumped_any_index(self, release_index, field, increment) ==
    IF field = "release"
    THEN LET release == Release_get_bumped(self.release, release_index, increment)
         IN  IF IsRaised(release) THEN release
             ELSE Version_init_objects(Get(release.value), Null, Null, Null, Null)
    ELSE IF field = "prerelease"
    THEN IF IsNull(self.prerelease) THEN Raised(AttributeError)
         ELSE Version_init_objects(
                self.release,
                Some(Prerelease_get_bumped(Get(self.prerelease), increment)),
                Null, Null, Null)
    ELSE IF field = "post"
    THEN IF IsNull(self.post) THEN Raised(TypeError) ELSE Raised(UnboundLocalError)
    ELSE IF field = "dev"
    THEN IF IsNull(self.dev) THEN Raised(TypeError)
         ELSE Version_init_objects(self.release, self.prerelease, self.post,
                                   Some(Get(self.dev) + increment), Null)
    ELSE Raised(ValueError)

\* Version.get_bumped(release_index, field, increment), branch by branch:
\* the bump of post adds to self.post and then reads the name release,
\* which that branch never binds.
Version_get_bumped(self, release_index, field, increment) ==
    IF field = "release"
    THEN LET release == Release_get_bumped(self.release, release_index, increment)
         IN  IF IsRaised(release) THEN release
             ELSE Version_init_objects(Get(release.value), Null, Null, Null, Null)
    ELSE IF ~IsNull(release_index) THEN Raised(ValueError)
    ELSE IF field = "prerelease"
    THEN IF IsNull(self.prerelease) THEN Raised(AttributeError)
         ELSE Version_init_objects(
                self.release,
                Some(Prerelease_get_bumped(Get(self.prerelease), increment)),
                Null, Null, Null)
    ELSE IF field = "post"
    THEN IF IsNull(self.post) THEN Raised(TypeError) ELSE Raised(UnboundLocalError)
    ELSE IF field = "dev"
    THEN IF IsNull(self.dev) THEN Raised(TypeError)
         ELSE Version_init_objects(self.release, self.prerelease, self.post,
                                   Some(Get(self.dev) + increment), Null)
    ELSE Raised(ValueError)

\* Release.__str__: '.'.join(str(x) for x in self.components)
RECURSIVE Release_str(_)
Release_str(components) ==
    IF Len(components) = 0 THEN <<>>
    ELSE IF Len(components) = 1 THEN NatToStr(components[1])
    ELSE NatToStr(components[1]) \o <<".">> \o Release_str(Tail(components))

\* Prerelease._PREFIXES
PREFIXES(category) ==
    CASE category = ALPHA -> <<"a">>
      [] category = BETA -> <<"b">>
      [] category = RELEASE_CANDIDATE -> <<"r", "c">>

\* Prerelease.__str__
Prerelease_str(prerelease) ==
    PREFIXES(prerelease.category) \o NatToStr(prerelease.value)

\* Version.__str__: a Prerelease and a LocalVersion are objects, true when
\* present; post and dev are ints, false when None and when 0.
Version_str(self) ==
    Release_str(self.release)
    \o (IF ~IsNull(self.prerelease) THEN Prerelease_str(Get(self.prerelease)) ELSE <<>>)
    \o (IF ~IsNull(self.post) /\ Get(self.post) # 0
        THEN <<".", "p", "o", "s", "t">> \o NatToStr(Get(self.post)) ELSE <<>>)
    \o (IF ~IsNull(self.dev) /\ Get(self.dev) # 0
        THEN <<".", "d", "e", "v">> \o NatToStr(Get(self.dev)) ELSE <<>>)
    \o (IF ~IsNull(self.local)
        THEN <<"+">> \o LocalVersion_str(Get(self.local)) ELSE <<>>)

\* datetime.date(): the date of a datetime.
DateOf(datetime) == [year |-> datetime.year, month |-> datetime.month, day |-> datetime.day]

\* Version.from_date(None) at the moment utcnow: the release is
\* utcnow.date().timetuple()[:3], every other field is unset.
from_date_with_hour(utcnow) ==
    VersionOf(<<utcnow.year, utcnow.month, utcnow.day, utcnow.hour>>,
              Null, Null, Null, Null)

from_date(utcnow) ==
    LET date == DateOf(utcnow)
    IN  VersionOf(<<date.year, date.month, date.day>>, Null, Null, Null, Null)

\* ============================================== roboversion.version.Version
\* The Version of src/roboversion/version.py: release is a tuple of ints,
\* prerelease None or (category, value), local None or a string.
PrereleaseCategory == {ALPHA, BETA, RELEASE_CANDIDATE}

roboversion_VersionOf(epoch, release, prerelease, post, dev, local) ==
    [epoch |-> epoch, release |-> release, prerelease |-> prerelease,
     post |-> post, dev |-> dev, local |-> local]

\* The property setters, each None when the value is accepted.
epoch_setter(value) ==
    IF ~IsNull(value) /\ Get(value) < 0 THEN Some(ValueError) ELSE Null
release_setter(value) ==
    IF Len(value) = 0 THEN Some(ValueError)
    ELSE IF \E i \in 1..Len(value) : value[i] < 0 THEN Some(ValueError)
    ELSE Null
prerelease_setter(value) ==
    IF IsNull(value) THEN Null
    ELSE IF Get(value).category \notin PrereleaseCategory THEN Some(ValueError)
    ELSE IF Get(value).value < 0 THEN Some(ValueError)
    ELSE Null
post_setter(value) ==
    IF ~IsNull(value) /\ Get(value) < 0 THEN Some(ValueError) ELSE Null
dev_setter(value) ==
    IF ~IsNull(value) /\ Get(value) < 0 THEN Some(ValueError) ELSE Null
local_setter(value) ==
    IF ~IsNull(value) /\ ~LocalVersionMatches(Get(value)) THEN Some(ValueError)
    ELSE Null

\* '.'.join(self._SEPARATOR_EXPRESSION.split(value))
RECURSIVE JoinDots(_)
JoinDots(parts) ==
    IF Len(parts) = 0 THEN <<>>
    ELSE IF Len(parts) = 1 THEN parts[1]
    ELSE parts[1] \o <<".">> \o JoinDots(Tail(parts))

NormalisedLocal(value) == JoinDots(SplitOnSeparators(value))

\* Version.__init__: the setters run in the order epoch, release,
\* prerelease, post, dev, local, and the first that raises ends it.
roboversion_Version_init(release, epoch, prerelease, post, dev, local) ==
    LET errors == << epoch_setter(epoch), release_setter(release),
                     prerelease_setter(prerelease), post_setter(post),
                     dev_setter(dev), local_setter(local) >>
        raised == {i \in 1..Len(errors) : ~IsNull(errors[i])}
    IN  IF raised # {}
        THEN Raised(Get(errors[CHOOSE i \in raised : \A j \in raised : i <= j]))
        ELSE Returned(roboversion_VersionOf(
                epoch, release, prerelease, post, dev,
                IF IsNull(local) THEN Null ELSE Some(NormalisedLocal(Get(local)))))

\* Version.__str__: each optional part is written when it is true, which
\* an epoch, a post and a dev of 0 are not.
roboversion_Version_str(self) ==
    (IF ~IsNull(self.epoch) /\ Get(self.epoch) # 0
     THEN NatToStr(Get(self.epoch)) \o <<"!">> ELSE <<>>)
    \o Release_str(self.release)
    \o (IF ~IsNull(self.prerelease)
        THEN PREFIXES(Get(self.prerelease).category)
                \o NatToStr(Get(self.prerelease).value)
        ELSE <<>>)
    \o (IF ~IsNull(self.post) /\ Get(self.post) # 0
        THEN <<".", "p", "o", "s", "t">> \o NatToStr(Get(self.post)) ELSE <<>>)
    \o (IF ~IsNull(self.dev) /\ Get(self.dev) # 0
        THEN <<".", "d", "e", "v">> \o NatToStr(Get(self.dev)) ELSE <<>>)
    \o (IF ~IsNull(self.local) /\ Get(self.local) # <<>>
        THEN <<"+">> \o Get(self.local) ELSE <<>>)

\* Version.get_bumped(index, increment): the release cut or padded to
\* index + 1 components, the last of them incremented, then padded with
\* zeros to the old length.
new_release(release, index, increment) ==
    LET n == Len(release)
        i == IF IsNull(index) THEN n - 1 ELSE Get(index)
        cut == [j \in 1..(i + 1) |-> IF j <= n THEN release[j] ELSE 0]
        bumped == [j \in 1..Len(cut) |->
                    IF j = Len(cut) THEN cut[j] + increment ELSE cut[j]]
        missing == IF n > Len(bumped) THEN n - Len(bumped) ELSE 0
    IN  bumped \o [j \in 1..missing |-> 0]

\* return self.__class__(release=new_release): every other field is left
\* at its default.
roboversion_get_bumped_keeps_fields(self, index, increment) ==
    roboversion_Version_init(
        new_release(self.release, index, increment),
        self.epoch, self.prerelease, self.post, self.dev, self.local)

roboversion_Version_get_bumped(self, index, increment) ==
    roboversion_Version_init(
        new_release(self.release, index, increment),
        Some(0), Null, Null, Null, Null)

\* ------------------------------------------------------- Version.EXPRESSION
\* How many digits the string starts with.
DigitsLen(s) ==
    LET ends == {n \in 0..Len(s) : \A i \in 1..n : s[i] \in Digits}
    IN  CHOOSE n \in ends : \A m \in ends : m <= n

\* [.\-_]? before a keyword: the separator is taken when it is there.
SkipSeparator(s) ==
    IF Len(s) > 0 /\ s[1] \in LocalSeparators THEN Tail(s) ELSE s

\* The first of the words, in order, the string starts with, as <<word>>.
FirstWord(s, words) ==
    LET hits == {k \in 1..Len(words) : StartsWith(s, words[k])}
    IN  IF hits = {} THEN Null
        ELSE Some(words[CHOOSE k \in hits : \A h \in hits : k <= h])

\* RELEASE_EXPRESSION: \d+(\.\d+)*, how much of the string it takes.
RECURSIVE ReleaseLen(_)
ReleaseLen(s) ==
    LET n == DigitsLen(s)
    IN  IF n = 0 THEN 0
        ELSE IF Len(s) >= n + 2 /\ s[n + 1] = "." /\ s[n + 2] \in Digits
        THEN n + 1 + ReleaseLen(Drop(s, n + 1))
        ELSE n

\* v?((?P<epoch>\d+)!)?
MatchEpoch(s) ==
    LET t == IF Len(s) > 0 /\ s[1] = "v" THEN Tail(s) ELSE s
        n == DigitsLen(t)
    IN  IF n > 0 /\ Len(t) > n /\ t[n + 1] = "!"
        THEN [epoch |-> Some(SubSeq(t, 1, n)), rest |-> Drop(t, n + 1)]
        ELSE [epoch |-> Null, rest |-> t]

\* ([.\-_]?(?P<prerelease>keyword([.\-_]?(?P<value>\d+))?))?
MatchPrerelease(s) ==
    LET t == SkipSeparator(s)
        hits == {k \in 1..Len(PrereleaseKeywords) :
                    StartsWith(t, PrereleaseKeywords[k].word)}
    IN  IF hits = {} THEN [prerelease |-> Null, rest |-> s]
        ELSE LET kw == PrereleaseKeywords[CHOOSE k \in hits : \A h \in hits : k <= h]
                 after == Drop(t, Len(kw.word))
                 digits == SkipSeparator(after)
                 n == DigitsLen(digits)
             IN  IF n > 0
                 THEN [prerelease |-> Some([category |-> kw.category,
                                            value |-> Some(SubSeq(digits, 1, n))]),
                       rest |-> Drop(digits, n)]
                 ELSE [prerelease |-> Some([category |-> kw.category, value |-> Null]),
                       rest |-> after]

\* ((([.\-_]?(post|r(ev)?)(?P<post>\d+)?)|-(?P<implicit_post>\d+)))?
MatchPost(s) ==
    LET t == SkipSeparator(s)
        word == FirstWord(t, << <<"p", "o", "s", "t">>, <<"r", "e", "v">>, <<"r">> >>)
    IN  IF ~IsNull(word)
        THEN LET after == Drop(t, Len(Get(word)))
                 n == DigitsLen(after)
             IN  [post |-> IF n > 0 THEN Some(SubSeq(after, 1, n)) ELSE Null,
                  implicit_post |-> Null,
                  rest |-> Drop(after, n)]
        ELSE IF Len(s) > 0 /\ s[1] = "-" /\ DigitsLen(Tail(s)) > 0
        THEN LET n == DigitsLen(Tail(s))
             IN  [post |-> Null,
                  implicit_post |-> Some(SubSeq(Tail(s), 1, n)),
                  rest |-> Drop(Tail(s), n)]
        ELSE [post |-> Null, implicit_post |-> Null, rest |-> s]

\* ([.\-_]?dev(?P<dev>\d+))?
MatchDev(s) ==
    LET t == SkipSeparator(s)
        after == Drop(t, 3)
        n == DigitsLen(after)
    IN  IF StartsWith(t, <<"d", "e", "v">>) /\ n > 0
        THEN [dev |-> Some(SubSeq(after, 1, n)), rest |-> Drop(after, n)]
        ELSE [dev |-> Null, rest |-> s]

\* (\+(?P<local>...))? and the end of the string.
MatchLocal(s) ==
    IF s = <<>> THEN [matched |-> TRUE, local |-> Null]
    ELSE IF s[1] = "+" /\ LocalVersionMatches(Tail(s))
    THEN [matched |-> TRUE, local |-> Some(Tail(s))]
    ELSE [matched |-> FALSE, local |-> Null]

\* Version.EXPRESSION.fullmatch(string): None or the groups of the match.
Version_fullmatch(string) ==
    LET e == MatchEpoch(string)
        n == ReleaseLen(e.rest)
        pre == MatchPrerelease(Drop(e.rest, n))
        post == MatchPost(pre.rest)
        dev == MatchDev(post.rest)
        local == MatchLocal(dev.rest)
    IN  IF n = 0 \/ ~local.matched THEN Null
        ELSE Some([epoch |-> e.epoch,
                   release |-> SubSeq(e.rest, 1, n),
                   prerelease |-> pre.prerelease,
                   post |-> post.post,
                   implicit_post |-> post.implicit_post,
                   dev |-> dev.dev,
                   local |-> local.local])

\* match['release'].split('.')
RECURSIVE SplitDots(_)
SplitDots(s) ==
    LET dots == {i \in 1..Len(s) : s[i] = "."}
    IN  IF dots = {} THEN <<s>>
        ELSE LET i == CHOOSE x \in dots : \A y \in dots : x <= y
             IN  <<SubSeq(s, 1, i - 1)>> \o SplitDots(Drop(s, i))

\* Version.from_str: the groups of the match, converted, given to Version().
roboversion_Version_from_str(string) ==
    LET match == Version_fullmatch(string)
    IN  IF IsNull(match) THEN Raised(ValueError)
        ELSE LET m == Get(match)
                 parts == SplitDots(m.release)
                 number(group) == Some(StrToNat(Get(group)))
             IN  roboversion_Version_init(
                    [i \in 1..Len(parts) |-> StrToNat(parts[i])],
                    IF IsNull(m.epoch) THEN Some(0) ELSE Some(StrToNat(Get(m.epoch))),
                    IF IsNull(m.prerelease) THEN Null
                    ELSE Some([category |-> Get(m.prerelease).category,
                               value |-> IF IsNull(Get(m.prerelease).value) THEN 0
                                         ELSE StrToNat(Get(Get(m.prerelease).value))]),
                    IF ~IsNull(m.post) THEN number(m.post)
                    ELSE IF ~IsNull(m.implicit_post) THEN number(m.implicit_post)
                    ELSE Null,
                    IF IsNull(m.dev) THEN Null ELSE number(m.dev),
                    m.local)

\* --------------------------------- Version.EXPRESSION of autoversion.version
\* The regular expression backtracks: each part of it can match from a
\* position in several ways, which the engine tries in a fixed order, and
\* the match is the first way through all the parts that ends at the end of
\* the string.  A way is the position reached, the groups captured so far
\* and its rank: for each choice made, the place of the alternative taken
\* in the order of trial (a greedy repetition tries the longer match first).
NoGroups ==
    [release |-> Null, prerelease |-> Null, post |-> Null,
     implicit_post |-> Null, dev |-> Null]
Way(pos, groups, rank) == [pos |-> pos, groups |-> groups, rank |-> rank]

RankBefore(a, b) ==
    \E i \in 1..Len(a) :
        /\ a[i] < b[i]
        /\ \A j \in 1..(i - 1) : a[j] = b[j]

\* \d+ from position p (p characters consumed): the positions it can end at.
DigitEnds(s, p) == {p + n : n \in 1..DigitsLen(Drop(s, p))}

\* [.-_]? from position p: with the character (tried first) when the class
\* holds it, or without.
SeparatorEnds(s, p) ==
    {[pos |-> p, rank |-> 1]} \cup
    (IF Len(s) > p /\ s[p + 1] \in PrereleaseSeparatorClass
     THEN {[pos |-> p + 1, rank |-> 0]} ELSE {})

\* The words, by their place in the order of trial, that the string has at
\* position p.
WordEnds(s, p, words) ==
    {[pos |-> p + Len(words[k]), rank |-> k] :
        k \in {i \in 1..Len(words) : StartsWith(Drop(s, p), words[i])}}

\* v?
WaysPrefix(s) ==
    {Way(0, NoGroups, <<1>>)} \cup
    (IF Len(s) > 0 /\ s[1] = "v" THEN {Way(1, NoGroups, <<0>>)} ELSE {})

\* (?P<release>(?P<epoch>\d+!)?(?P<components>\d+(\.\d+)*))
EpochEnds(s, p) ==
    {[pos |-> p, rank |-> 1]} \cup
    (IF /\ DigitsLen(Drop(s, p)) > 0
        /\ Len(s) > p + DigitsLen(Drop(s, p))
        /\ s[p + DigitsLen(Drop(s, p)) + 1] = "!"
     THEN {[pos |-> p + DigitsLen(Drop(s, p)) + 1, rank |-> 0]} ELSE {})
ComponentsEnds(s, p) ==
    {q \in (p + 1)..(p + ReleaseLen(Drop(s, p))) : s[q] \in Digits}
WaysRelease(s, way) ==
    UNION {{Way(q, [way.groups EXCEPT !.release = Some(SubSeq(s, way.pos + 1, q))],
                way.rank \o <<e.rank, Len(s) - q>>) :
                q \in ComponentsEnds(s, e.pos)} :
            e \in EpochEnds(s, way.pos)}

\* Prerelease.EXPRESSION from position p: a keyword, then
\* ([.-_]?(?P<value>\d+))? present, with or without the separator, or absent.
PrereleaseEnds(s, p) ==
    UNION {{[pos |-> word.pos, rank |-> <<word.rank, 2, 0>>]} \cup
           UNION {{[pos |-> q, rank |-> <<word.rank, sep.rank, Len(s) - q>>] :
                        q \in DigitEnds(s, sep.pos)} :
                    sep \in SeparatorEnds(s, word.pos)} :
            word \in WordEnds(s, p, [k \in 1..Len(PrereleaseKeywords) |->
                                        PrereleaseKeywords[k].word])}

\* ([.-_]?(?P<prerelease>...))?
WaysPrerelease(s, way) ==
    {Way(way.pos, way.groups, way.rank \o <<2, 0, 0, 0>>)} \cup
    UNION {{Way(end.pos,
                [way.groups EXCEPT !.prerelease = Some(SubSeq(s, sep.pos + 1, end.pos))],
                way.rank \o <<sep.rank>> \o end.rank) :
                end \in PrereleaseEnds(s, sep.pos)} :
            sep \in SeparatorEnds(s, way.pos)}

\* ((([.-_]?(post|r(ev)?)(?P<post>\d+)?)|-(?P<implicit_post>\d+)))?
PostWords == << <<"p", "o", "s", "t">>, <<"r", "e", "v">>, <<"r">> >>
WaysPost(s, way) ==
    {Way(way.pos, way.groups, way.rank \o <<2, 0, 0, 0>>)} \cup
    UNION {UNION {{Way(word.pos, way.groups,
                       way.rank \o <<0, sep.rank, word.rank, Len(s) + 1>>)} \cup
                  {Way(q, [way.groups EXCEPT !.post = Some(SubSeq(s, word.pos + 1, q))],
                       way.rank \o <<0, sep.rank, word.rank, Len(s) - q>>) :
                        q \in DigitEnds(s, word.pos)} :
                    word \in WordEnds(s, sep.pos, PostWords)} :
            sep \in SeparatorEnds(s, way.pos)} \cup
    (IF Len(s) > way.pos /\ s[way.pos + 1] = "-"
     THEN {Way(q, [way.groups EXCEPT
                        !.implicit_post = Some(SubSeq(s, way.pos + 2, q))],
               way.rank \o <<1, 0, 0, Len(s) - q>>) :
                q \in DigitEnds(s, way.pos + 1)}
     ELSE {})

\* ([.-_]?dev(?P<dev>\d+))?
WaysDev(s, way) ==
    {Way(way.pos, way.groups, way.rank \o <<2, 0>>)} \cup
    UNION {UNION {{Way(q, [way.groups EXCEPT !.dev = Some(SubSeq(s, word.pos + 1, q))],
                       way.rank \o <<sep.rank, Len(s) - q>>) :
                        q \in DigitEnds(s, word.pos)} :
                    word \in WordEnds(s, sep.pos, << <<"d", "e", "v">> >>)} :
            sep \in SeparatorEnds(s, way.pos)}

\* All the ways through the parts before (\+(?P<local>...))? that can be
\* followed by it and the end of the string.
WaysToEnd(s) ==
    {way \in UNION {WaysDev(s, post) :
                post \in UNION {WaysPost(s, pre) :
                    pre \in UNION {WaysPrerelease(s, release) :
                        release \in UNION {WaysRelease(s, prefix) :
                            prefix \in WaysPrefix(s)}}}} :
        MatchLocal(Drop(s, way.pos)).matched}

\* Version.EXPRESSION.fullmatch(string) of autoversion.version: None or the
\* groups of the first way, in the order of trial, that ends at the end of
\* the string.
Version_EXPRESSION_fullmatch(string) ==
    CHOOSE match \in
        {IF ways = {} THEN Null
         ELSE LET way == CHOOSE w \in ways : \A x \in ways \ {w} : RankBefore(w.rank, x.rank)
              IN  Some([release |-> way.groups.release,
                        prerelease |-> way.groups.prerelease,
                        post |-> way.groups.post,
                        implicit_post |-> way.groups.implicit_post,
                        dev |-> way.groups.dev,
                        local |-> MatchLocal(Drop(string, way.pos)).local]) :
            ways \in {WaysToEnd(string)}} : TRUE

\* Release.from_str: the components of the match, the epoch left out.
Release_from_str(string) ==
    LET with_epoch == {e \in EpochEnds(string, 0) : e.rank = 0}
        parts == SplitDots(IF with_epoch = {} THEN string
                           ELSE Drop(string, (CHOOSE e \in with_epoch : TRUE).pos))
    IN  Release_init([i \in 1..Len(parts) |-> StrToNat(parts[i])])

\* Version.from_str of autoversion.version
Version_from_str(string) ==
    CHOOSE made \in
        {IF IsNull(match) THEN Raised(ValueError)
         ELSE Version_init(
                Get(Release_from_str(Get(Get(match).release)).value),
                Get(match).prerelease,
                IF ~IsNull(Get(match).post) THEN Some(StrToNat(Get(Get(match).post)))
                ELSE IF ~IsNull(Get(match).implicit_post)
                THEN Some(StrToNat(Get(Get(match).implicit_post)))
                ELSE Null,
                IF IsNull(Get(match).dev) THEN Null
                ELSE Some(StrToNat(Get(Get(match).dev))),
                Get(match).local) :
            match \in {Version_EXPRESSION_fullmatch(string)}} : TRUE

\* ============================================================== Reference
NO_TAG_RETURN_CODE == 128
OTHER_RETURN_CODE == -1
ReturnCodes == {NO_TAG_RETURN_CODE, OTHER_RETURN_CODE}

\* The local argument: the AUTO_LOCAL sentinel, None, or a string.
AUTO_LOCAL == [auto |-> TRUE, value |-> Null]
LocalNone == [auto |-> FALSE, value |-> Null]
LocalStr(s) == [auto |-> FALSE, value |-> Some(s)]

\* ---------------------------------------------------- inputs of the model
TargetRef == "HEAD"
BranchNames == {"develop", "release"}
OtherBranchNames == {"feature"}
ExplicitLocals == {<<"a", "-", "b">>, <<"0", "7">>, <<>>}
HashAbbreviations == {<<"a", "1", "f", "0">>, <<"0", "1", "2", "7">>}
TagDistances == {2, 10}
HistoryCounts == {1, 10}
UpstreamCounts == {0, 4, 9}
Clocks ==
    {[year |-> 2026, month |-> 11, day |-> 3, hour |-> 9],
     [year |-> 2026, month |-> 11, day |-> 3, hour |-> 17],
     [year |-> 2026, month |-> 11, day |-> 4, hour |-> 9]}
\* What get_commits_since_tagged_version found: the tag and the Version
\* Version.from_str made of it.
TaggedVersions ==
    {[tag |-> "v1.2.3", version |-> VersionOf(<<1, 2, 3>>, Null, Null, Null, Null)],
     [tag |-> "1.0rc1",
      version |-> VersionOf(<<1, 0>>,
                            Some([category |-> RELEASE_CANDIDATE, value |-> 1]),
                            Null, Null, Null)]}

\* main: the local handed to get_version, from the --local option (its
\* default is AUTO_LOCAL) and the --no_auto_local flag.
main_local(option, no_auto_local) ==
    IF no_auto_local /\ option = AUTO_LOCAL THEN LocalNone ELSE option

\* The command line options that decide local, and the arguments of
\* get_version they and the other options give.
LocalOptions ==
    [local : {AUTO_LOCAL} \cup {LocalStr(s) : s \in ExplicitLocals},
     no_auto_local : BOOLEAN]

ArgumentsOf(streams, post, cli, index) ==
    [name |-> TargetRef,
     candidate_branch |-> streams.candidate_branch,
     beta_branch |-> streams.beta_branch,
     alpha_branch |-> streams.alpha_branch,
     post |-> post,
     cli |-> cli,
     local |-> main_local(cli.local, cli.no_auto_local),
     release_bump_index |-> index]

StreamChoices ==
    [candidate_branch : {Null} \cup {Some(b) : b \in BranchNames},
     beta_branch : {Null} \cup {Some(b) : b \in BranchNames},
     alpha_branch : {Null} \cup {Some(b) : b \in BranchNames}]
PostChoices == {Null} \cup {Some(p) : p \in -1..MaxPost}
IndexChoices == {Null, Some(0)}

\* A response of Git: a CalledProcessError with a return code, or a value.
Failed(code) == [code |-> Some(code), value |-> Null]
Ok(v) == [code |-> Null, value |-> Some(v)]
Failures == {Failed(c) : c \in ReturnCodes}

DescribeResponses ==
    Failures \cup
    {Ok([distance |-> d, tag |-> t.tag, version |-> t.version]) :
        d \in {Null} \cup {Some(n) : n \in TagDistances}, t \in TaggedVersions}
HistoryResponses == Failures \cup {Ok(n) : n \in HistoryCounts}
BranchResponses == Failures \cup {Ok(b) : b \in BranchNames \cup OtherBranchNames}
SinceBranchResponses == Failures \cup {Ok(n) : n \in 0..MaxSince}
SinceUpstreamResponses == Failures \cup {Ok(n) : n \in UpstreamCounts}
HashResponses == Failures \cup {Ok(h) : h \in HashAbbreviations}

\* What the counts of one history have in common.  The commits of the
\* target outside the open stream are among all its commits; and a commit
\* of the target since the tag (any commit, without a tag) is outside the
\* open stream or is a commit of the open stream since the tag.
SinceBranchPossible(tag, distance, since_branch) ==
    ~IsNull(tag) \/ since_branch <= distance
SinceUpstreamPossible(distance, since_branch, since_upstream) ==
    distance <= since_branch + since_upstream

CallKeys == {"describe", "history", "branch", "since_branch", "since_upstream", "hash"}


\* ------------------------------------------------ decisions of get_version
\* except CalledProcessError: the return code get_version handles itself.
HandlesAnyFailure(returncode) == TRUE

HandlesTagFailure(returncode) == returncode = NO_TAG_RETURN_CODE

\* if prerelease_version is None: return base_version
get_version_at_tag_bumped(base_version) ==
    Returned([base_version EXCEPT
        !.release = Get(Release_get_bumped(base_version.release, Null, 1).value)])

get_version_at_tag(base_version) == Returned(base_version)

\* prerelease_prefixes with the prefixes of beta and alpha exchanged.
prerelease_prefixes_exchanged(a) ==
    SelectSeq(<< [prefix |-> <<"r", "c">>, branch |-> a.candidate_branch],
                 [prefix |-> <<"a">>, branch |-> a.beta_branch],
                 [prefix |-> <<"b">>, branch |-> a.alpha_branch] >>,
              LAMBDA x : ~IsNull(x.branch))

\* prerelease_prefixes: the configured streams in the order of the dict,
\* 'rc', 'b', 'a', with the streams that are None filtered out.
prerelease_prefixes(a) ==
    SelectSeq(<< [prefix |-> <<"r", "c">>, branch |-> a.candidate_branch],
                 [prefix |-> <<"b">>, branch |-> a.beta_branch],
                 [prefix |-> <<"a">>, branch |-> a.alpha_branch] >>,
              LAMBDA x : ~IsNull(x.branch))

\* The for loop over prerelease_prefixes: the first stream whose branch is
\* branch_name, as <<its position>>, or None.
FirstMatch(prefixes, branch_name) ==
    LET hits == {i \in 1..Len(prefixes) : Get(prefixes[i].branch) = branch_name}
    IN  IF hits = {} THEN Null
        ELSE Some(CHOOSE i \in hits : \A j \in hits : i <= j)

\* prefix and prerelease_branch once the loop has run to its end: those of
\* the last configured stream.
LoopLast(prefixes) == prefixes[Len(prefixes)]

\* return Version(**components) inside the loop: the prerelease is the
\* string f'{prefix}{prerelease_version}'.
StreamVersion(release, prefix, prerelease_version) ==
    Version_init(release, Some(prefix \o NatToStr(prerelease_version)), Null, Null, Null)

\* The local-only Version of a ref in the history of the open stream.
LocalOnlyVersion(base_version, hash_abbreviation) ==
    Version_init(base_version.release, Null, Null, Null, Some(hash_abbreviation))

\* components['prerelease'] = f'{prefix}{since_upstream + 1}'
ProspectivePrerelease(prefix, since_upstream) ==
    prefix \o NatToStr(since_upstream + 1)

\* The end of get_version: a post pops dev, local is the argument or, for
\* AUTO_LOCAL, the abbreviated hash.
FinalVersionKeepsDev(components, post, local) ==
    Version_init(components.release, components.prerelease, post, components.dev, local)

FinalVersion(components, post, local) ==
    Version_init(components.release,
                 components.prerelease,
                 post,
                 IF ~IsNull(post) THEN Null ELSE components.dev,
                 local)


\* ================================================================== state
VARIABLES
    args,                \* the arguments of the get_version call
    pc,                  \* where get_version is: the call to Git it makes next
    prerelease_version,  \* None or the distance from the tag
    base_version,        \* None or the Version of the tag (or of the date)
    release_tag,         \* None or the tag
    components,          \* the keyword arguments of the Version being built
    outcome,             \* None, or what get_version returned or raised
    warnings,            \* warnings logged, by logger
    calls,               \* the calls to Git made by this run, in order
    asked,               \* what Git answered to each kind of call
    run,                 \* 1 for the first resolution, 2 for the repeated one
    utcnow,              \* None or the clock datetime.utcnow() read
    previous,            \* None or the first run's outcome and clock
    stdout,              \* the lines main has printed to standard output
    stderr,              \* the lines main has written to standard error
    exit_status,         \* None, or the exit status of the process
    heap,                \* the Release and Version objects made so far
    trail,               \* the calls made on them, in order
    repository,          \* the tags reachable from the ref, with their distances
    arguments,           \* the arguments get_commits_since_tagged_version added
    described            \* None, or what get_commits_since_tagged_version gave

vars == <<args, pc, prerelease_version, base_version, release_tag, components,
          outcome, warnings, calls, asked, run, utcnow, previous,
          stdout, stderr, exit_status, heap, trail,
          repository, arguments, described>>

\* The state of the command line process, and of the objects of version.py
\* handled outside a resolution.
process == <<stdout, stderr, exit_status>>
objects == <<heap, trail>>
search == <<repository, arguments, described>>

locals == <<prerelease_version, base_version, release_tag, components>>

NoComponents == [release |-> <<>>, prerelease |-> Null, dev |-> Null]
NoWarnings == [git |-> 0, version |-> 0]

\* Nothing resolved, written or made yet.
Fresh ==
    /\ prerelease_version = Null
    /\ base_version = Null
    /\ release_tag = Null
    /\ components = NoComponents
    /\ outcome = Null
    /\ warnings = NoWarnings
    /\ calls = <<>>
    /\ asked = [k \in CallKeys |-> Null]
    /\ run = 1
    /\ utcnow = Null
    /\ previous = Null
    /\ stdout = <<>>
    /\ stderr = <<>>
    /\ exit_status = Null
    /\ heap = <<>>
    /\ trail = <<>>
    /\ arguments = <<>>
    /\ described = Null

Init ==
    /\ args \in {ArgumentsOf(s, p, c, i) :
                    s \in StreamChoices, p \in PostChoices,
                    c \in LocalOptions, i \in IndexChoices}
    /\ pc = "describe"
    /\ repository = {}
    /\ Fresh

\* The answer of Git to a call: any answer the first time, the same answer
\* when the call is repeated by the second run.
Answers(key, responses) ==
    IF IsNull(asked[key]) THEN responses ELSE {Get(asked[key])}

\* A call to Git: what is run on which ref, excluding the history of which.
Call(fn, ref, since) == [fn |-> fn, ref |-> ref, since |-> since]

\* A CalledProcessError leaves get_version.
Raise(code) ==
    /\ pc' = "done"
    /\ outcome' = Some(Raised(CalledProcessError(code)))

Return(result) ==
    /\ pc' = "done"
    /\ outcome' = Some(result)

\* Lines 151-155: with the distance and the base version known, return the
\* base version at the tag, else bump the release and go on to the branch.
WithBase(distance, version, tag) ==
    /\ prerelease_version' = distance
    /\ base_version' = Some(version)
    /\ release_tag' = tag
    /\ IF IsNull(distance)
       THEN /\ Return(get_version_at_tag(version))
            /\ UNCHANGED components
       ELSE /\ components' = [NoComponents EXCEPT !.release =
                Get(Release_get_bumped(version.release, args.release_bump_index, 1).value)]
            /\ pc' = "branch"
            /\ UNCHANGED outcome

\* self.get_commits_since_tagged_version()
DescribeTag ==
    /\ pc = "describe"
    /\ \E r \in Answers("describe", DescribeResponses) :
        /\ asked' = [asked EXCEPT !["describe"] = Some(r)]
        /\ calls' = Append(calls, Call("get_commits_since_tagged_version", args.name, Null))
        /\ IF ~IsNull(r.code)
           THEN IF HandlesTagFailure(Get(r.code))
                THEN /\ pc' = "history"
                     /\ UNCHANGED <<outcome, locals>>
                ELSE /\ Raise(Get(r.code))
                     /\ UNCHANGED locals
           ELSE LET d == Get(r.value)
                IN  WithBase(d.distance, d.version, Some(d.tag))
    /\ UNCHANGED <<process, objects, search, args, warnings, run, utcnow, previous>>

\* The no-tag fallback: self.get_commits_in_history(), then
\* Version.from_datetime(), which logs its deprecation and reads the clock.
CountHistory ==
    /\ pc = "history"
    /\ \E r \in Answers("history", HistoryResponses) :
        /\ asked' = [asked EXCEPT !["history"] = Some(r)]
        /\ calls' = Append(calls, Call("get_commits_in_history", args.name, Null))
        /\ IF ~IsNull(r.code)
           THEN /\ Raise(Get(r.code))
                /\ UNCHANGED <<locals, warnings, utcnow>>
           ELSE \E now \in Clocks :
                /\ utcnow' = Some(now)
                /\ warnings' = [warnings EXCEPT !.version = @ + 1]
                /\ WithBase(Some(Get(r.value)), from_date(now), Null)
    /\ UNCHANGED <<process, objects, search, args, run, previous>>

\* self.branch.name and the loop over the configured streams.
ResolveBranch ==
    /\ pc = "branch"
    /\ \E r \in Answers("branch", BranchResponses) :
        /\ asked' = [asked EXCEPT !["branch"] = Some(r)]
        /\ calls' = Append(calls, Call("branch", args.name, Null))
        /\ IF ~IsNull(r.code)
           THEN /\ Raise(Get(r.code))
                /\ UNCHANGED components
           ELSE LET prefixes == prerelease_prefixes(args)
                    match == FirstMatch(prefixes, Get(r.value))
                IN  IF ~IsNull(match)
                    THEN /\ Return(StreamVersion(components.release,
                                                 prefixes[Get(match)].prefix,
                                                 Get(prerelease_version)))
                         /\ components' = [components EXCEPT !.prerelease =
                                Some(prefixes[Get(match)].prefix
                                        \o NatToStr(Get(prerelease_version)))]
                    ELSE IF Len(prefixes) > 0
                    THEN /\ pc' = "since_branch"
                         /\ UNCHANGED <<outcome, components>>
                    ELSE /\ components' = [components EXCEPT !.dev = prerelease_version]
                         /\ pc' = "final"
                         /\ UNCHANGED outcome
    /\ UNCHANGED <<process, objects, search, args, prerelease_version, base_version, release_tag,
                   warnings, run, utcnow, previous>>

\* self.get_commits_in_history(since=prerelease_branch): zero commits is
\* the logged local-only case.
CountSinceBranch ==
    /\ pc = "since_branch"
    /\ \E r \in Answers("since_branch", SinceBranchResponses) :
        /\ asked' = [asked EXCEPT !["since_branch"] = Some(r)]
        /\ calls' = Append(calls,
                Call("get_commits_in_history", args.name,
                     LoopLast(prerelease_prefixes(args)).branch))
        /\ IF ~IsNull(r.code)
           THEN /\ Raise(Get(r.code))
                /\ UNCHANGED <<components, warnings>>
           ELSE /\ SinceBranchPossible(release_tag, Get(prerelease_version), Get(r.value))
                /\ components' = [components EXCEPT !.dev = r.value]
                /\ UNCHANGED outcome
                /\ IF Get(r.value) = 0
                   THEN /\ warnings' = [warnings EXCEPT !.git = @ + 1]
                        /\ pc' = "local_only"
                   ELSE /\ pc' = "since_upstream"
                        /\ UNCHANGED warnings
    /\ UNCHANGED <<process, objects, search, args, prerelease_version, base_version, release_tag,
                   run, utcnow, previous>>

\* The local-only return taking the local argument when one is given.
LocalOnly_local_argument ==
    /\ pc = "local_only"
    /\ \E r \in Answers("hash", HashResponses) :
        /\ asked' = [asked EXCEPT !["hash"] = Some(r)]
        /\ calls' = Append(calls, Call("hash_abbreviation", args.name, Null))
        /\ IF ~IsNull(r.code)
           THEN Raise(Get(r.code))
           ELSE Return(Version_init(Get(base_version).release, Null, Null, Null,
                                    IF args.local = AUTO_LOCAL THEN r.value
                                    ELSE args.local.value))
    /\ UNCHANGED <<process, objects, search, args, locals, warnings, run, utcnow, previous>>

\* self.hash_abbreviation for the local-only Version.
LocalOnly ==
    /\ pc = "local_only"
    /\ \E r \in Answers("hash", HashResponses) :
        /\ asked' = [asked EXCEPT !["hash"] = Some(r)]
        /\ calls' = Append(calls, Call("hash_abbreviation", args.name, Null))
        /\ IF ~IsNull(r.code)
           THEN Raise(Get(r.code))
           ELSE Return(LocalOnlyVersion(Get(base_version), Get(r.value)))
    /\ UNCHANGED <<process, objects, search, args, locals, warnings, run, utcnow, previous>>

\* prerelease_ref.get_commits_in_history(since=release_tag)
CountSinceUpstream ==
    /\ pc = "since_upstream"
    /\ \E r \in Answers("since_upstream", SinceUpstreamResponses) :
        /\ asked' = [asked EXCEPT !["since_upstream"] = Some(r)]
        /\ calls' = Append(calls,
                Call("get_commits_in_history",
                     Get(LoopLast(prerelease_prefixes(args)).branch),
                     release_tag))
        /\ IF ~IsNull(r.code)
           THEN /\ Raise(Get(r.code))
                /\ UNCHANGED components
           ELSE /\ SinceUpstreamPossible(Get(prerelease_version),
                                          Get(components.dev), Get(r.value))
                /\ components' = [components EXCEPT !.prerelease =
                    Some(ProspectivePrerelease(
                            LoopLast(prerelease_prefixes(args)).prefix, Get(r.value)))]
                /\ pc' = "final"
                /\ UNCHANGED outcome
    /\ UNCHANGED <<process, objects, search, args, prerelease_version, base_version, release_tag,
                   warnings, run, utcnow, previous>>

\* The end of get_version with local left at AUTO_LOCAL:
\* self.hash_abbreviation is the local.
ConstructAutoLocal ==
    /\ pc = "final"
    /\ args.local = AUTO_LOCAL
    /\ \E r \in Answers("hash", HashResponses) :
        /\ asked' = [asked EXCEPT !["hash"] = Some(r)]
        /\ calls' = Append(calls, Call("hash_abbreviation", args.name, Null))
        /\ IF ~IsNull(r.code)
           THEN Raise(Get(r.code))
           ELSE Return(FinalVersion(components, args.post, r.value))
    /\ UNCHANGED <<process, objects, search, args, locals, warnings, run, utcnow, previous>>

\* The end of get_version with local given, a string or None: no call.
ConstructGivenLocal ==
    /\ pc = "final"
    /\ args.local # AUTO_LOCAL
    /\ Return(FinalVersion(components, args.post, args.local.value))
    /\ UNCHANGED <<process, objects, search, args, locals, warnings, calls, asked, run, utcnow, previous>>

\* The caller resolves the same ref again with the same arguments, Git
\* answering as it did; the clock is read afresh.
Rerun ==
    /\ pc = "done"
    /\ run = 1
    /\ previous' = Some([outcome |-> Get(outcome), utcnow |-> utcnow])
    /\ run' = 2
    /\ pc' = "describe"
    /\ prerelease_version' = Null
    /\ base_version' = Null
    /\ release_tag' = Null
    /\ components' = NoComponents
    /\ outcome' = Null
    /\ warnings' = NoWarnings
    /\ calls' = <<>>
    /\ utcnow' = Null
    /\ UNCHANGED <<process, objects, search, args, asked>>

\* One resolution.
Next ==
    \/ DescribeTag
    \/ CountHistory
    \/ ResolveBranch
    \/ CountSinceBranch
    \/ LocalOnly
    \/ CountSinceUpstream
    \/ ConstructAutoLocal
    \/ ConstructGivenLocal

Spec == Init /\ [][Next]_vars

\* Two resolutions of the same ref, one after the other, by a caller that
\* leaves the release index at its default and gives no --local.
InitRerun ==
    /\ Init
    /\ args.release_bump_index = Null
    /\ args.cli.local = AUTO_LOCAL

NextRerun == Next \/ Rerun

SpecRerun == InitRerun /\ [][NextRerun]_vars

\* ------------------------------------------------------------------- main
\* What main writes to standard error when a call to Git failed: the
\* logged error and the printed hint.
GitErrorLines ==
    << "A call to Git encountered an error",
       "Is the specified path a Git repository? If so, does it contain any commits?" >>

\* What the interpreter writes for an exception that leaves main.
Traceback(error) == <<"Traceback (most recent call last)", error.type>>

\* The exit status of the process: main returned (it returns None on both
\* of its paths), or an exception left it.
ExitStatus(returned) == IF returned THEN 0 ELSE 1

\* except CalledProcessError: print the hint to standard error and return.
main_except_raises(error) ==
    [stdout |-> <<>>, stderr |-> GitErrorLines \o Traceback(error), returned |-> FALSE]

main_except(error) ==
    [stdout |-> <<>>, stderr |-> GitErrorLines, returned |-> TRUE]

\* main once get_version has returned or raised: print(version), the
\* except clause for a CalledProcessError, or the error leaves main.
main ==
    /\ pc = "done"
    /\ run = 1
    /\ LET o == Get(outcome)
           written ==
                IF IsReturned(o)
                THEN [stdout |-> <<Version_str(Get(o.value))>>,
                      stderr |-> <<>>, returned |-> TRUE]
                ELSE IF Get(o.error).type = "CalledProcessError"
                THEN main_except(Get(o.error))
                ELSE [stdout |-> <<>>, stderr |-> Traceback(Get(o.error)),
                      returned |-> FALSE]
       IN  /\ stdout' = stdout \o written.stdout
           /\ stderr' = stderr \o written.stderr
           /\ exit_status' = Some(ExitStatus(written.returned))
    /\ pc' = "exited"
    /\ UNCHANGED <<objects, search, args, locals, outcome, warnings, calls, asked, run,
                   utcnow, previous>>

\* One run of the command line: a resolution, then main's report of it.
NextMain == Next \/ main

SpecMain == Init /\ [][NextMain]_vars

\* ------------------------------------------------- the objects of version.py
\* Largest number of calls made in a row on the objects.
MaxCalls == 3

\* What the callers hand to the constructors, valid and not.
RawEpochs == {Some(-1), Some(0), Some(1)}
RawReleases == {<<>>, <<0>>, <<1, 2>>, <<1, -1>>}
RawPrereleases ==
    {Null, Some([category |-> ALPHA, value |-> 0]),
     Some([category |-> RELEASE_CANDIDATE, value |-> 2]),
     Some([category |-> BETA, value |-> -1])}
RawPosts == {Null, Some(-1), Some(0), Some(1)}
RawDevs == {Null, Some(-1), Some(0), Some(3)}
RawLocals == {Null, Some(<<"a", "-", "b">>), Some(<<"0", "7">>), Some(<<"-", "a">>)}
RawPrereleaseStrings == {Null, Some(<<"a", "0">>), Some(<<"r", "c", "2">>)}
BumpIndexes == {Null, Some(0), Some(3)}
BumpFields == {"release", "prerelease", "post", "dev", "local", "NOT_A_SEGMENT"}
BumpIncrements == {-1, 1}
VersionStrings ==
    { <<"v", "1", ".", "0", "-", "1">>,
      <<"1", "!", "2", ".", "0", "r", "c", ".", "d", "e", "v", "0">>,
      <<"1", ".", "0", ".", "p", "o", "s", "t">>,
      <<"1", ".", "0", "a", "_", "2", "+", "x", "_", "1">>,
      <<"1", ".", "0", "+">>,
      <<"1", ".", "a">> }

\* Tags given to Version.from_str of autoversion.version.
TagStrings ==
    {<<"v", "1", ".", "2", ".", "3">>,
     <<"2", "!", "1", ".", "0">>,
     <<"1", ".", "0", "r", "c", "1">>,
     <<"b", "a", "d">>}

\* One call on the objects: the method, the object it is called on (its
\* place in the heap, 0 for a constructor or a class method), its
\* arguments and what it returned or raised.
CallOf(op, self, given, result) ==
    [op |-> op, self |-> self, args |-> given, outcome |-> result]

NoArguments == [release_index |-> Null, field |-> "", increment |-> 0, string |-> <<>>]
BumpArguments(index, field, increment) ==
    [NoArguments EXCEPT !.release_index = index, !.field = field, !.increment = increment]

\* A call is recorded; the object it returned is new on the heap, and the
\* objects there are left as they are.
Record(class, call) ==
    /\ trail' = Append(trail, call)
    /\ heap' = IF IsReturned(call.outcome)
               THEN Append(heap, [class |-> class, fields |-> Get(call.outcome.value)])
               ELSE heap

\* The object the next method is called on: the one the last call made.
\* A call that raised is the last one, nothing catches its error.
Latest == Len(heap)
LatestIs(class) ==
    /\ Len(trail) < MaxCalls
    /\ Len(trail) > 0
    /\ IsReturned(trail[Len(trail)].outcome)
    /\ heap[Latest].class = class

\* roboversion.version.Version(release, epoch=, prerelease=, post=, dev=, local=)
Construct_roboversion_Version ==
    /\ pc = "objects"
    /\ trail = <<>>
    /\ \E release \in RawReleases, epoch \in RawEpochs, prerelease \in RawPrereleases,
          post \in RawPosts, dev \in RawDevs, local \in RawLocals :
        Record("roboversion.Version",
               CallOf("Version", 0, NoArguments,
                      roboversion_Version_init(release, epoch, prerelease, post, dev, local)))
    /\ UNCHANGED <<process, search, args, pc, locals, outcome, warnings, calls, asked, run,
                   utcnow, previous>>

\* roboversion.version.Version.from_str(string)
Parse_roboversion_Version ==
    /\ pc = "objects"
    /\ trail = <<>>
    /\ \E string \in VersionStrings :
        Record("roboversion.Version",
               CallOf("from_str", 0, [NoArguments EXCEPT !.string = string],
                      roboversion_Version_from_str(string)))
    /\ UNCHANGED <<process, search, args, pc, locals, outcome, warnings, calls, asked, run,
                   utcnow, previous>>

\* Version.from_str(str(version)) of the test of the round trip.
RoundTrip_roboversion_Version ==
    /\ pc = "objects"
    /\ LatestIs("roboversion.Version")
    /\ LET string == roboversion_Version_str(heap[Latest].fields)
       IN  Record("roboversion.Version",
                  CallOf("from_str", Latest, [NoArguments EXCEPT !.string = string],
                         roboversion_Version_from_str(string)))
    /\ UNCHANGED <<process, search, args, pc, locals, outcome, warnings, calls, asked, run,
                   utcnow, previous>>

\* version.get_bumped(index, increment) of roboversion.version.Version
Bump_roboversion_Version ==
    /\ pc = "objects"
    /\ LatestIs("roboversion.Version")
    /\ \E index \in BumpIndexes, increment \in BumpIncrements :
        Record("roboversion.Version",
               CallOf("get_bumped", Latest, BumpArguments(index, "release", increment),
                      roboversion_Version_get_bumped(heap[Latest].fields, index, increment)))
    /\ UNCHANGED <<process, search, args, pc, locals, outcome, warnings, calls, asked, run,
                   utcnow, previous>>

\* Release(components) of autoversion.version
Construct_Release ==
    /\ pc = "objects"
    /\ trail = <<>>
    /\ \E raw \in RawReleases :
        LET made == Release_init(raw)
        IN  Record("Release",
                   CallOf("Release", 0, NoArguments,
                          IF IsRaised(made) THEN made
                          ELSE Returned([release |-> Get(made.value)])))
    /\ UNCHANGED <<process, search, args, pc, locals, outcome, warnings, calls, asked, run,
                   utcnow, previous>>

\* release.get_bumped(index, increment)
Bump_Release ==
    /\ pc = "objects"
    /\ LatestIs("Release")
    /\ \E index \in BumpIndexes, increment \in BumpIncrements :
        LET made == Release_get_bumped(heap[Latest].fields.release, index, increment)
        IN  Record("Release",
                   CallOf("get_bumped", Latest, BumpArguments(index, "release", increment),
                          IF IsRaised(made) THEN made
                          ELSE Returned([release |-> Get(made.value)])))
    /\ UNCHANGED <<process, search, args, pc, locals, outcome, warnings, calls, asked, run,
                   utcnow, previous>>

\* Version(release=Release(components), prerelease=, post=, dev=, local=) of
\* autoversion.version, the prerelease and the local given as strings.
Construct_Version ==
    /\ pc = "objects"
    /\ trail = <<>>
    /\ \E raw \in RawReleases, prerelease \in RawPrereleaseStrings,
          post \in RawPosts, dev \in RawDevs, local \in RawLocals :
        LET release == Release_init(raw)
        IN  Record("Version",
                   CallOf("Version", 0, NoArguments,
                          IF IsRaised(release) THEN release
                          ELSE Version_init(Get(release.value), prerelease, post, dev, local)))
    /\ UNCHANGED <<process, search, args, pc, locals, outcome, warnings, calls, asked, run,
                   utcnow, previous>>

\* Version.from_str(tag) of autoversion.version, as the tag search calls it.
Parse_Version ==
    /\ pc = "objects"
    /\ trail = <<>>
    /\ \E string \in TagStrings :
        Record("Version",
               CallOf("from_str", 0, [NoArguments EXCEPT !.string = string],
                      Version_from_str(string)))
    /\ UNCHANGED <<process, search, args, pc, locals, outcome, warnings, calls, asked, run,
                   utcnow, previous>>

\* version.get_bumped(release_index, field, increment) of autoversion.version
Bump_Version ==
    /\ pc = "objects"
    /\ LatestIs("Version")
    /\ \E index \in BumpIndexes, field \in BumpFields, increment \in BumpIncrements :
        Record("Version",
               CallOf("get_bumped", Latest, BumpArguments(index, field, increment),
                      Version_get_bumped(heap[Latest].fields, index, field, increment)))
    /\ UNCHANGED <<process, search, args, pc, locals, outcome, warnings, calls, asked, run,
                   utcnow, previous>>

InitObjects ==
    /\ args = ArgumentsOf([candidate_branch |-> Null, beta_branch |-> Null,
                           alpha_branch |-> Null],
                          Null, [local |-> AUTO_LOCAL, no_auto_local |-> FALSE], Null)
    /\ pc = "objects"
    /\ repository = {}
    /\ Fresh

NextObjects ==
    \/ Construct_roboversion_Version
    \/ Parse_roboversion_Version
    \/ RoundTrip_roboversion_Version
    \/ Bump_roboversion_Version
    \/ Construct_Release
    \/ Bump_Release
    \/ Construct_Version
    \/ Parse_Version
    \/ Bump_Version

SpecObjects == InitObjects /\ [][NextObjects]_vars


\* ======================================= get_commits_since_tagged_version
\* The search for the tagged version run on a repository: the tags that
\* are reachable from the ref, each at its distance, 0 for a tag on the
\* ref's own commit.
MaxTagDistance == 2
MaxExcludes == 3

TagNames ==
    {<<"v", "1", ".", "0">>,
     <<"b", "a", "d">>,
     <<"b", "a", "d", "-", "t", "a", "g">>,
     <<"1", ".", "0", "-", "1">>,
     <<"x", "-", "y", "-", "z">>}

Repositories ==
    {{[name |-> n, distance |-> Get(placed[n])] :
            n \in {m \in TagNames : ~IsNull(placed[m])}} :
        placed \in [TagNames -> {Null} \cup {Some(d) : d \in 0..MaxTagDistance}]}

ExcludeOption == <<"-", "-", "e", "x", "c", "l", "u", "d", "e">>

\* The patterns that follow an --exclude in the arguments.
Excluded(arguments_) ==
    {arguments_[j] : j \in {i \in 2..Len(arguments_) : arguments_[i - 1] = ExcludeOption}}

\* What git describe --tags prints for a tag: its name when it is on the
\* commit, else name-distance-g<abbreviated id>.
DescribeOutput(tag, hash_abbreviation) ==
    IF tag.distance = 0 THEN tag.name
    ELSE tag.name \o <<"-">> \o NatToStr(tag.distance) \o <<"-", "g">> \o hash_abbreviation

\* self._run_command('git', 'describe', '--tags', ..., self.name): the
\* nearest tag no pattern excludes, any of them when several are as near;
\* with no tag left Git fails with the no-tag code.
git_describe(repo, arguments_) ==
    LET candidates == {t \in repo : t.name \notin Excluded(arguments_)}
        nearest == {t \in candidates : \A u \in candidates : t.distance <= u.distance}
    IN  IF candidates = {} THEN {Failed(NO_TAG_RETURN_CODE)}
        ELSE {Ok(DescribeOutput(t, h)) : t \in nearest, h \in HashAbbreviations}

\* string.rsplit(separator, maxsplit)
RECURSIVE rsplit(_, _, _)
rsplit(string, separator, maxsplit) ==
    LET at == {i \in 1..Len(string) : string[i] = separator}
    IN  IF maxsplit = 0 \/ at = {} THEN <<string>>
        ELSE LET i == CHOOSE x \in at : \A y \in at : y <= x
             IN  Append(rsplit(SubSeq(string, 1, i - 1), separator, maxsplit - 1),
                        Drop(string, i))

\* After the loop: distance, _ = description; distance = int(distance),
\* or None when the description is empty.
DescribedDistance(description) ==
    IF Len(description) = 0 THEN Returned(Null)
    ELSE IF Len(description) # 2 THEN Raised(ValueError)
    ELSE IF ~IsDigits(description[1]) THEN Raised(ValueError)
    ELSE Returned(Some(StrToNat(description[1])))

\* One turn of the while loop: Git describes the ref, the tag is split off
\* and parsed; a ValueError of the parse adds the tag to the exclusions and
\* the loop goes on, else the loop is left and the call returns or raises.
SearchTag ==
    /\ pc = "search"
    /\ Len(arguments) < 2 * MaxExcludes
    /\ \E r \in git_describe(repository, arguments) :
        IF ~IsNull(r.code)
        THEN /\ described' = Some(Raised(CalledProcessError(Get(r.code))))
             /\ pc' = "searched"
             /\ UNCHANGED arguments
        ELSE \E parts \in {rsplit(Get(r.value), "-", 2)} :
             \E version \in {Version_from_str(parts[1])} :
             \E distance \in {DescribedDistance(Tail(parts))} :
                IF IsRaised(version) /\ Get(version.error) = ValueError
                THEN /\ arguments' = arguments \o <<ExcludeOption, parts[1]>>
                     /\ UNCHANGED <<pc, described>>
                ELSE /\ pc' = "searched"
                     /\ UNCHANGED arguments
                     /\ described' =
                            IF IsRaised(version) THEN Some(version)
                            ELSE IF IsRaised(distance) THEN Some(distance)
                            ELSE Some(Returned([distance |-> Get(distance.value),
                                                version |-> Get(version.value),
                                                tag |-> parts[1]]))
    /\ UNCHANGED <<process, objects, repository, args, locals, outcome, warnings,
                   calls, asked, run, utcnow, previous>>

InitTags ==
    /\ args = ArgumentsOf([candidate_branch |-> Null, beta_branch |-> Null,
                           alpha_branch |-> Null],
                          Null, [local |-> AUTO_LOCAL, no_auto_local |-> FALSE], Null)
    /\ pc = "search"
    /\ repository \in Repositories
    /\ Fresh

NextTags == SearchTag

SpecTags == InitTags /\ [][NextTags]_vars


\* ============================================================= properties
\* What Git answered, read back from the record of its answers.
Answered(key) == ~IsNull(asked[key])
AnswerOk(key) == Answered(key) /\ IsNull(Get(asked[key]).code)
AnswerFailed(key) == Answered(key) /\ ~IsNull(Get(asked[key]).code)
Value(key) == Get(Get(asked[key]).value)
Code(key) == Get(Get(asked[key]).code)

HasResult == pc = "done" /\ IsReturned(Get(outcome))
Result == Get(Get(outcome).value)

NoStream ==
    /\ IsNull(args.candidate_branch)
    /\ IsNull(args.beta_branch)
    /\ IsNull(args.alpha_branch)
ConfiguredBranches ==
    {args.candidate_branch, args.beta_branch, args.alpha_branch} \ {Null}
OnStream == AnswerOk("branch") /\ Some(Value("branch")) \in ConfiguredBranches
OffStream == AnswerOk("branch") /\ ~NoStream /\ ~OnStream

\* The category of the first stream, in the order candidate, beta, alpha,
\* whose branch is name.
FirstCategory(name) ==
    IF args.candidate_branch = Some(name) THEN RELEASE_CANDIDATE
    ELSE IF args.beta_branch = Some(name) THEN BETA
    ELSE ALPHA

\* The open stream: alpha if configured, else beta, else candidate.
OpenCategory ==
    IF ~IsNull(args.alpha_branch) THEN ALPHA
    ELSE IF ~IsNull(args.beta_branch) THEN BETA
    ELSE RELEASE_CANDIDATE
OpenBranch ==
    IF ~IsNull(args.alpha_branch) THEN args.alpha_branch
    ELSE IF ~IsNull(args.beta_branch) THEN args.beta_branch
    ELSE args.candidate_branch

NoTag == AnswerFailed("describe") /\ Code("describe") = NO_TAG_RETURN_CODE
AtTag == AnswerOk("describe") /\ IsNull(Value("describe").distance)
\* The distance and the release the resolution starts from, as Git and the
\* clock gave them.
Distance ==
    IF AnswerOk("describe") THEN Get(Value("describe").distance) ELSE Value("history")
TaggedRelease ==
    IF AnswerOk("describe") THEN Value("describe").version.release
    ELSE <<Get(utcnow).year, Get(utcnow).month, Get(utcnow).day>>
BumpedLast(release) == [release EXCEPT ![Len(release)] = @ + 1]

\* The paths that reach the construction at the end of get_version.
FinalPath ==
    /\ HasResult
    /\ AnswerOk("branch")
    /\ ~OnStream
    /\ NoStream \/ (AnswerOk("since_branch") /\ Value("since_branch") > 0)

\* The local the final construction is given.
LocalUsed == IF args.local = AUTO_LOCAL THEN Some(Value("hash")) ELSE args.local.value

\* A local string with its separators normalised to ".".
DotJoined(s) == [i \in 1..Len(s) |-> IF s[i] \in LocalSeparators THEN "." ELSE s[i]]

\* C1: whenever the tag lookup reports no distance, get_version returns
\* the tagged Version unchanged, whatever the streams, post and local: no
\* bump, no component added, and no further call to Git.
AtTagReturnsTaggedVersion ==
    AtTag =>
        /\ pc = "done"
        /\ outcome = Some(Returned(Value("describe").version))
        /\ Len(calls) = 1

AtTagReturnsTaggedVersionWitness ==
    /\ AtTag
    /\ pc = "done"
    /\ ~NoStream
    /\ args.post = Some(1)
    /\ args.local = LocalStr(<<"0", "7">>)
    /\ ~IsNull(Value("describe").version.prerelease)

\* C2: on a branch whose name is that of a configured stream, at distance
\* d from the tag, the result is exactly the release bumped at its last
\* component with prerelease (category of the first matching stream in the
\* order candidate, beta, alpha; d) and nothing else.  Stated for the
\* default release index.
StreamTipPrerelease ==
    (pc = "done" /\ OnStream /\ IsNull(args.release_bump_index)) =>
        outcome = Some(Returned(VersionOf(
            BumpedLast(TaggedRelease),
            Some([category |-> FirstCategory(Value("branch")), value |-> Distance]),
            Null, Null, Null)))

\* C3: off the stream branches and s > 0 commits ahead of the open stream,
\* the result has the release bumped at its last component, prerelease
\* (category of the open stream, commits of the open stream since the tag
\* plus one) and dev s.  Stated for the default release index and no post.
DevAheadOfOpenStream ==
    (/\ HasResult
     /\ OffStream
     /\ AnswerOk("since_branch")
     /\ Value("since_branch") > 0
     /\ IsNull(args.post)
     /\ IsNull(args.release_bump_index)) =>
        /\ Result.release = BumpedLast(TaggedRelease)
        /\ Result.prerelease =
                Some([category |-> OpenCategory, value |-> Value("since_upstream") + 1])
        /\ Result.dev = Some(Value("since_branch"))

\* C4: off the stream branches and zero commits ahead of the open stream,
\* the call returns, logs exactly one warning, and the result is exactly
\* the tagged release, not bumped, with local the abbreviated commit id.
LocalOnlyInHistory ==
    (/\ pc = "done"
     /\ OffStream
     /\ AnswerOk("since_branch")
     /\ Value("since_branch") = 0
     /\ AnswerOk("hash")) =>
        /\ IsReturned(Get(outcome))
        /\ warnings.git = 1
        /\ Result.release = TaggedRelease
        /\ IsNull(Result.prerelease)
        /\ IsNull(Result.post)
        /\ IsNull(Result.dev)
        /\ ~IsNull(Result.local)
        /\ LocalVersion_str(Get(Result.local)) = Value("hash")

\* C5: with no stream configured, distance d, no post and the default
\* local, the result is the release bumped at its last component, dev d
\* and local the abbreviated commit id, with no prerelease and no post.
DevSinceTag ==
    (/\ pc = "done"
     /\ AnswerOk("branch")
     /\ NoStream
     /\ IsNull(args.post)
     /\ args.local = AUTO_LOCAL
     /\ IsNull(args.release_bump_index)
     /\ AnswerOk("hash")) =>
        /\ IsReturned(Get(outcome))
        /\ Result.release = BumpedLast(TaggedRelease)
        /\ IsNull(Result.prerelease)
        /\ IsNull(Result.post)
        /\ Result.dev = Some(Distance)
        /\ ~IsNull(Result.local)
        /\ LocalVersion_str(Get(Result.local)) = Value("hash")


NoTagFallback ==
    (/\ HasResult
     /\ NoTag
     /\ IsNull(args.post)
     /\ IsNull(args.release_bump_index)) =>
        /\ prerelease_version = Some(Value("history"))
        /\ base_version = Some(VersionOf(
                <<Get(utcnow).year, Get(utcnow).month, Get(utcnow).day>>,
                Null, Null, Null, Null))
        /\ IsNull(release_tag)
        /\ NoStream =>
            /\ Result.release =
                    <<Get(utcnow).year, Get(utcnow).month, Get(utcnow).day + 1>>
            /\ Result.dev = Some(Value("history"))
        /\ (OffStream /\ Value("since_branch") > 0) =>
            /\ calls[5] = Call("get_commits_in_history", Get(OpenBranch), Null)
            /\ ~IsNull(Result.prerelease)
            /\ Get(Result.prerelease).value = Value("since_upstream") + 1

\* C8: on the paths that set dev, a post supplied by the caller gives the
\* result the call without post gives, with dev removed and post set; no
\* result of these paths has both post and dev.
PostReplacesDev ==
    FinalPath =>
        LET without == Get(FinalVersion(components, Null, LocalUsed).value)
        IN  /\ ~(~IsNull(Result.post) /\ ~IsNull(Result.dev))
            /\ ~IsNull(without.dev)
            /\ ~IsNull(args.post) =>
                /\ Result = [without EXCEPT !.post = args.post, !.dev = Null]
                /\ Result.release = components.release
                /\ NoStream => IsNull(Result.prerelease)
                /\ ~NoStream =>
                    /\ ~IsNull(Result.prerelease)
                    /\ Get(Result.prerelease).category = OpenCategory

PostReplacesDevWitness ==
    /\ FinalPath
    /\ OffStream
    /\ args.post = Some(1)
    /\ Result.post = Some(1)
    /\ Value("since_branch") = 1
    /\ Value("since_upstream") = 4

\* C9: at the final construction an explicit local is the result's local
\* (its separators normalised), a suppressed local gives no local, and the
\* default gives the abbreviated commit id; on the command line an
\* explicit --local wins over the no-auto-local flag, which only turns the
\* default into suppression.
LocalComponent ==
    /\ args.cli.local # AUTO_LOCAL => args.local = args.cli.local
    /\ args.cli.local = AUTO_LOCAL =>
        args.local = IF args.cli.no_auto_local THEN LocalNone ELSE AUTO_LOCAL
    /\ FinalPath =>
        IF args.local = LocalNone THEN IsNull(Result.local)
        ELSE /\ ~IsNull(Result.local)
             /\ LocalVersion_str(Get(Result.local)) =
                    IF args.local = AUTO_LOCAL THEN Value("hash")
                    ELSE DotJoined(Get(args.local.value))

GitFailureReported ==
    /\ pc = "exited"
    /\ IsRaised(Get(outcome))
    /\ Get(Get(outcome).error).type = "CalledProcessError"

\* C11 as stated: when the resolution fails with a CalledProcessError, main
\* writes a diagnostic to standard error, nothing to standard output, and
\* the process exits non-zero.
GitFailureExitsNonZero ==
    GitFailureReported =>
        /\ stderr # <<>>
        /\ stdout = <<>>
        /\ exit_status # Some(0)

\* C11 as amended: when the resolution fails with a CalledProcessError, main
\* writes a diagnostic to standard error, nothing to standard output, and
\* returns, so that the process exits with status zero.
GitFailureReturnsQuietly ==
    GitFailureReported =>
        /\ stderr = GitErrorLines
        /\ stdout = <<>>
        /\ exit_status = Some(0)

GitFailureReturnsQuietlyWitness ==
    /\ GitFailureReported
    /\ Len(calls) >= 2
    /\ Get(Get(outcome).error).code = NO_TAG_RETURN_CODE

\* ------------------------------------------------- the objects: properties
\* The calls of one method, as places in the trail.
CallsOf(op) == {j \in 1..Len(trail) : trail[j].op = op}
Receiver(j) == heap[trail[j].self]
Made(j) == Get(trail[j].outcome.value)

\* C12: for every valid Version v of roboversion.version, from_str(str(v))
\* returns a Version with the fields of v: epoch, release, prerelease, post,
\* dev and local (v holds its local with the separators normalised).
RoundTripRestoresFields ==
    \A j \in CallsOf("from_str") :
        (trail[j].self > 0 /\ Receiver(j).class = "roboversion.Version") =>
            trail[j].outcome = Returned(Receiver(j).fields)

\* The bumps of a release: Release.get_bumped, and Version.get_bumped on the
\* field release, of either Version.
ReleaseBumps ==
    {j \in CallsOf("get_bumped") : trail[j].args.field = "release"}
IndexOf(j) ==
    IF IsNull(trail[j].args.release_index)
    THEN Len(Receiver(j).fields.release) - 1
    ELSE Get(trail[j].args.release_index)

\* A bump by +1 that returned, followed by a bump of what it made by -1 at
\* the same index.
BumpedAndBack(j) ==
    /\ j \in ReleaseBumps
    /\ j + 1 \in ReleaseBumps
    /\ IsReturned(trail[j].outcome)
    /\ Len(Receiver(j).fields.release) > 0
    /\ trail[j].args.increment = 1
    /\ trail[j + 1].args.increment = -1
    /\ trail[j + 1].args.release_index = trail[j].args.release_index
    /\ Receiver(j + 1).fields = Made(j)

Restored(j) ==
    /\ IsReturned(trail[j + 1].outcome)
    /\ Release_str(Made(j + 1).release) = Release_str(Receiver(j).fields.release)

\* C13 as stated: bumping a release at any index by +1 and the result at
\* the same index by -1 gives a release whose string is that of the
\* release bumped first.
BumpThenUnbumpRestores ==
    \A j \in 1..Len(trail) : BumpedAndBack(j) => Restored(j)

\* C13 as amended: bumping a release at its last component (no index, or
\* the index of the last component) by +1 and the result there by -1 gives
\* a release whose string is that of the release bumped first.
BumpThenUnbumpRestoresLast ==
    \A j \in 1..Len(trail) :
        (BumpedAndBack(j) /\ IndexOf(j) = Len(Receiver(j).fields.release) - 1)
            => Restored(j)

BumpThenUnbumpRestoresLastWitness ==
    \E j \in 1..Len(trail) :
        /\ BumpedAndBack(j)
        /\ Receiver(j).class = "Release"
        /\ trail[j].args.release_index = Some(0)
        /\ Len(Receiver(j).fields.release) = 1

\* What the claim says a bump of components c at index i by k gives.
Larger(a, b) == IF a > b THEN a ELSE b
ClaimedBump(c, i, k) ==
    [p \in 1..Larger(Len(c), i + 1) |->
        IF p - 1 < i THEN (IF p <= Len(c) THEN c[p] ELSE 0)
        ELSE IF p - 1 = i THEN (IF p <= Len(c) THEN c[p] ELSE 0) + k
        ELSE 0]

\* C14: a bump of a release at index i with increment k that returns gives
\* max(n, i + 1) components: those before i unchanged (0 where missing),
\* component i raised by k, those after i zero; with no index i is the
\* last component.
BumpAtIndex ==
    \A j \in ReleaseBumps :
        IsReturned(trail[j].outcome) =>
            Made(j).release =
                ClaimedBump(Receiver(j).fields.release, IndexOf(j), trail[j].args.increment)

BumpAtIndexWitness ==
    /\ \E j \in ReleaseBumps :
        /\ IsReturned(trail[j].outcome)
        /\ Receiver(j).class = "Release"
        /\ Receiver(j).fields.release = <<1, 2>>
        /\ trail[j].args.release_index = Some(0)
    /\ \E j \in ReleaseBumps :
        /\ IsReturned(trail[j].outcome)
        /\ IndexOf(j) >= Len(Receiver(j).fields.release)

\* The calls that returned, in order: the h-th of them made heap[h].
Returns == SelectSeq(trail, LAMBDA call : IsReturned(call.outcome))

\* C15: Version.get_bumped on the release field returns a new Version with
\* the bumped release and no prerelease, post, dev or local, whatever the
\* receiver had; every object made before is as the call that made it
\* returned it.
ReleaseBumpStartsFresh ==
    /\ \A j \in ReleaseBumps :
        (IsReturned(trail[j].outcome) /\ Receiver(j).class # "Release") =>
            /\ Made(j).release =
                ClaimedBump(Receiver(j).fields.release, IndexOf(j),
                            trail[j].args.increment)
            /\ IsNull(Made(j).prerelease)
            /\ IsNull(Made(j).post)
            /\ IsNull(Made(j).dev)
            /\ IsNull(Made(j).local)
    /\ Len(heap) = Len(Returns)
    /\ \A h \in 1..Len(heap) : heap[h].fields = Get(Returns[h].outcome.value)

ReleaseBumpStartsFreshWitness ==
    \E j \in ReleaseBumps :
        /\ IsReturned(trail[j].outcome)
        /\ Receiver(j).class = "roboversion.Version"
        /\ ~IsNull(Receiver(j).fields.prerelease)
        /\ ~IsNull(Receiver(j).fields.post)
        /\ ~IsNull(Receiver(j).fields.dev)
        /\ ~IsNull(Receiver(j).fields.local)

\* The calls of get_bumped on a Version of autoversion.version.
VersionBumps == {j \in CallsOf("get_bumped") : Receiver(j).class = "Version"}

\* C16: get_bumped on post or dev (the field being set) returns a Version
\* with that field raised by the increment and the release unchanged; on
\* prerelease, when one is set, the counter is raised by the increment and
\* the category and the release are unchanged.  Stated for results that are
\* not negative.
FieldBumpAdds ==
    \A j \in VersionBumps :
        LET self == Receiver(j).fields
            k == trail[j].args.increment
            field == trail[j].args.field
        IN  IsNull(trail[j].args.release_index) =>
            /\ (field = "post" /\ ~IsNull(self.post) /\ Get(self.post) + k >= 0) =>
                /\ IsReturned(trail[j].outcome)
                /\ Made(j).post = Some(Get(self.post) + k)
                /\ Made(j).release = self.release
            /\ (field = "dev" /\ ~IsNull(self.dev) /\ Get(self.dev) + k >= 0) =>
                /\ IsReturned(trail[j].outcome)
                /\ Made(j).dev = Some(Get(self.dev) + k)
                /\ Made(j).release = self.release
            /\ (field = "prerelease" /\ ~IsNull(self.prerelease)
                    /\ Get(self.prerelease).value + k >= 0) =>
                /\ IsReturned(trail[j].outcome)
                /\ Made(j).prerelease =
                    Some([category |-> Get(self.prerelease).category,
                          value |-> Get(self.prerelease).value + k])
                /\ Made(j).release = self.release

\* C17: get_bumped on local, on prerelease when the Version has none, with
\* a release index and a field other than release, or on an unknown field,
\* raises an error and returns no Version.
BadBumpsRaise ==
    /\ \A j \in VersionBumps :
        LET self == Receiver(j).fields
            field == trail[j].args.field
        IN  (\/ field = "local"
             \/ field = "prerelease" /\ IsNull(self.prerelease)
             \/ field # "release" /\ ~IsNull(trail[j].args.release_index)
             \/ field \notin BumpableFields \cup {"local"}) =>
                /\ IsRaised(trail[j].outcome)
                /\ IsNull(trail[j].outcome.value)
    /\ Len(heap) = Cardinality({j \in 1..Len(trail) : IsReturned(trail[j].outcome)})

BadBumpsRaiseWitness ==
    \E j \in VersionBumps :
        /\ trail[j].args.field = "dev"
        /\ ~IsNull(Receiver(j).fields.dev)
        /\ trail[j].args.release_index = Some(0)
        /\ IsRaised(trail[j].outcome)
        /\ Len(trail) = 3

\* A Release or Version whose fields are all valid.
ValidRelease(release) ==
    /\ Len(release) > 0
    /\ \A i \in 1..Len(release) : release[i] >= 0
NotNegative(field) == IsNull(field) \/ Get(field) >= 0
ValidObject(object) ==
    LET f == object.fields
    IN  /\ ValidRelease(f.release)
        /\ object.class # "Release" =>
            /\ NotNegative(f.post)
            /\ NotNegative(f.dev)
            /\ IsNull(f.prerelease) \/ Get(f.prerelease).value >= 0
        /\ object.class = "roboversion.Version" =>
            /\ NotNegative(f.epoch)
            /\ IsNull(f.local) \/ LocalVersionMatches(Get(f.local))

\* C18: no construction, parsing or bump, a bump by a negative increment
\* included, returns a Version or Release with an empty release, a
\* negative release component, or a negative epoch, post, dev or
\* prerelease counter, or a local outside the grammar: such a call raises.
ObjectsAreValid ==
    \A h \in 1..Len(heap) : ValidObject(heap[h])

\* Exactly one of the three stream arguments is given.
OneStream ==
    Cardinality({k \in {"candidate_branch", "beta_branch", "alpha_branch"} :
                    ~IsNull(args[k])}) = 1

CategoryRank(category) ==
    IF category = ALPHA THEN 0 ELSE IF category = BETA THEN 1 ELSE 2
PrereleaseKey(v) ==
    IF ~IsNull(v.prerelease)
    THEN <<CategoryRank(Get(v.prerelease).category), Get(v.prerelease).value>>
    ELSE IF IsNull(v.post) /\ ~IsNull(v.dev) THEN <<-1, 0>>
    ELSE <<3, 0>>
PEP440Key(v) ==
    PrereleaseKey(v)
        \o (IF IsNull(v.post) THEN <<-1>> ELSE <<Get(v.post)>>)
        \o (IF IsNull(v.dev) THEN <<1, 0>> ELSE <<0, Get(v.dev)>>)
        \o (IF IsNull(v.local) THEN <<0>> ELSE <<1>>)
Padded(release, n) ==
    [i \in 1..n |-> IF i <= Len(release) THEN release[i] ELSE 0]
LexLess(a, b) ==
    \E i \in 1..Len(a) :
        /\ a[i] < b[i]
        /\ \A j \in 1..(i - 1) : a[j] = b[j]
PEP440Less(v, w) ==
    LET n == IF Len(v.release) > Len(w.release) THEN Len(v.release) ELSE Len(w.release)
    IN  LexLess(Padded(v.release, n) \o PEP440Key(v), Padded(w.release, n) \o PEP440Key(w))

\* C20: off the stream branches, s > 0 commits ahead of the open stream
\* whose tip is n commits from the tag, with no post, the result is greater
\* in the order of PEP440 than the tagged version and than the version the
\* tip of the open stream resolves to, prerelease (c, n), and less than the
\* next prerelease of the stream, (c, n + 1); and it is greater than the
\* result of a target fewer commits ahead of the same tip.
ResolvedVersionsOrdered ==
    (/\ HasResult
     /\ OffStream
     /\ AnswerOk("since_branch")
     /\ Value("since_branch") > 0
     /\ IsNull(args.post)) =>
        LET open == LoopLast(prerelease_prefixes(args))
            n == Value("since_upstream")
            tip == Get(StreamVersion(components.release, open.prefix, n).value)
            following == Get(StreamVersion(components.release, open.prefix, n + 1).value)
            Behind(s) == Get(FinalVersion([components EXCEPT !.dev = Some(s)],
                                          Null, LocalUsed).value)
        IN  /\ AnswerOk("describe") => PEP440Less(Value("describe").version, Result)
            /\ PEP440Less(tip, Result)
            /\ PEP440Less(Result, following)
            /\ \A s \in 1..(Value("since_branch") - 1) : PEP440Less(Behind(s), Result)

\* The tags the search has excluded, in order, and the tags of the
\* repository that are PEP440-compliant.
ExcludedTags == [i \in 1..(Len(arguments) \div 2) |-> arguments[2 * i]]
Compliant == {t \in repository : IsReturned(Version_from_str(t.name))}
NearestCompliant == {t \in Compliant : \A u \in Compliant : t.distance <= u.distance}

\* C21: every turn of the loop excludes a tag of the repository that it has
\* not excluded before, so the turns are at most as many as the tags; and
\* the search ends with the nearest PEP440-compliant tag, its Version and
\* its distance (None on the ref's own commit), or, when no tag is
\* compliant, with the no-tag failure of Git.
TagSearchTerminates ==
    /\ \A i \in DOMAIN ExcludedTags :
        /\ \E t \in repository : t.name = ExcludedTags[i]
        /\ \A j \in DOMAIN ExcludedTags : i # j => ExcludedTags[i] # ExcludedTags[j]
    /\ pc = "searched" =>
        IF Compliant = {}
        THEN described = Some(Raised(CalledProcessError(NO_TAG_RETURN_CODE)))
        ELSE \E t \in NearestCompliant :
                described = Some(Returned(
                    [distance |-> IF t.distance = 0 THEN Null ELSE Some(t.distance),
                     version |-> Get(Version_from_str(t.name).value),
                     tag |-> t.name]))

\* The epoch a version string shows: the number before "!", 0 without one.
StringEpoch(string) ==
    LET digits == IF Len(string) > 0 /\ string[1] = "v" THEN Tail(string) ELSE string
        n == DigitsLen(digits)
    IN  IF n > 0 /\ Len(digits) > n /\ digits[n + 1] = "!"
        THEN StrToNat(SubSeq(digits, 1, n))
        ELSE 0

\* A Version of autoversion.version parsed from a tag, and the release
\* bumps of it that returned: what get_version makes of the tagged version.
ParsedTag ==
    /\ Len(trail) > 0
    /\ trail[1].op = "from_str"
    /\ trail[1].self = 0
    /\ Len(heap) > 0
    /\ heap[1].class = "Version"
FromTag ==
    {1} \cup {j \in ReleaseBumps : IsReturned(trail[j].outcome)}

\* C22: a release bump of a Version of roboversion.version, at every index,
\* returns a Version with the epoch of the receiver; and the Version parsed
\* from a tag, and every release bump of it, as get_version makes them for
\* a ref that is not at the tag, shows the epoch of the tag.
EpochPreserved ==
    /\ \A j \in ReleaseBumps :
        (IsReturned(trail[j].outcome) /\ Receiver(j).class = "roboversion.Version") =>
            Made(j).epoch = Receiver(j).fields.epoch
    /\ ParsedTag =>
        \A j \in FromTag :
            StringEpoch(Version_str(Made(j))) = StringEpoch(trail[1].args.string)

\* The paths of get_version that return before the final construction: at
\* the tag, on a stream branch, and zero commits ahead of the open stream.
EarlyReturnPath ==
    \/ AtTag
    \/ OnStream
    \/ OffStream /\ AnswerOk("since_branch") /\ Value("since_branch") = 0

\* After a call that took an early-return path the caller resolves the same
\* ref again with another post and another local, every other argument as
\* before, Git answering as it did.
RerunOtherPostLocal ==
    /\ pc = "done"
    /\ run = 1
    /\ EarlyReturnPath
    /\ \E post \in PostChoices, cli \in LocalOptions :
        args' = ArgumentsOf([candidate_branch |-> args.candidate_branch,
                             beta_branch |-> args.beta_branch,
                             alpha_branch |-> args.alpha_branch],
                            post, cli, args.release_bump_index)
    /\ previous' = Some([outcome |-> Get(outcome), utcnow |-> utcnow, args |-> args])
    /\ run' = 2
    /\ pc' = "describe"
    /\ prerelease_version' = Null
    /\ base_version' = Null
    /\ release_tag' = Null
    /\ components' = NoComponents
    /\ outcome' = Null
    /\ warnings' = NoWarnings
    /\ calls' = <<>>
    /\ utcnow' = Null
    /\ UNCHANGED <<process, objects, search, asked>>

\* The first of the two calls is made with no post and, the local
\* identifier being on, with the default local or with "07".
InitOtherPostLocal ==
    /\ Init
    /\ args.release_bump_index = Null
    /\ args.post = Null
    /\ ~args.cli.no_auto_local
    /\ args.cli.local \in {AUTO_LOCAL, LocalStr(<<"0", "7">>)}

NextOtherPostLocal == Next \/ RerunOtherPostLocal

SpecOtherPostLocal == InitOtherPostLocal /\ [][NextOtherPostLocal]_vars

\* Both calls read no clock, or clocks of the same date.
SameDate ==
    \/ IsNull(utcnow)
    \/ /\ ~IsNull(Get(previous).utcnow)
       /\ Get(utcnow).year = Get(Get(previous).utcnow).year
       /\ Get(utcnow).month = Get(Get(previous).utcnow).month
       /\ Get(utcnow).day = Get(Get(previous).utcnow).day

\* C23: on the early-return paths a second call that differs from the
\* first only in post and local, in the same repository on the same date,
\* has the outcome of the first; and the Version returned on a stream
\* branch or zero commits ahead of the open stream has no post.
EarlyReturnsIgnorePostAndLocal ==
    (run = 2 /\ pc = "done" /\ EarlyReturnPath /\ SameDate) =>
        /\ Get(outcome) = Get(previous).outcome
        /\ (IsReturned(Get(outcome)) /\ ~AtTag) => IsNull(Result.post)

EarlyReturnsIgnorePostAndLocalWitness ==
    /\ run = 2
    /\ pc = "done"
    /\ OffStream
    /\ AnswerOk("since_branch")
    /\ Value("since_branch") = 0
    /\ IsReturned(Get(outcome))
    /\ args.post = Some(1)
    /\ args.local = LocalStr(<<"a", "-", "b">>)
    /\ Get(previous).args.post = Null
    /\ Get(previous).args.local = AUTO_LOCAL
====
